---- MODULE Spec2Model ----
(***************************************************************************)
(* Token ledger (backend/token/token.ts) and NFT marketplace               *)
(* (unnamed/part_000) of indoblockforge-platform, over the relational      *)
(* schema of backend/blockchain/migrations/1_create_tables.up.sql.         *)
(*                                                                         *)
(* Every request handler is an async function; each `await` on a database  *)
(* statement is one atomic step and the steps of concurrent requests       *)
(* interleave freely.  A handler's local validation is folded into its     *)
(* first statement, because it touches no shared state.                    *)
(*                                                                         *)
(* Amounts and prices are decimal strings in the code; the model carries   *)
(* their integer value (BigInt(req.amount), DECIMAL(78,0)).  A wallet id   *)
(* is identified with the wallet's address (wallets.address is UNIQUE and  *)
(* wallets are never deleted).                                             *)
(***************************************************************************)
EXTENDS Integers, FiniteSets, Sequences, TLC

\* ---------------------------------------------------------------- bounds
\* requests accepted in a run: by the marketplace, and by the token service
MaxCalls == 4
MaxTokenCalls == 3
\* createEvent requests accepted in a run
MaxEvents == 2
MaxListings == 2
MaxTime == 1

\* ---------------------------------------------------------------- request inputs
\* slots for requests served at the same time
Procs == {1, 2}
Addrs == {"a1", "a2"}
TokenIds == {1}
PosAmounts == {1, 2}
\* token 2 has no row in tokens
AnyTokenIds == {1, 2}
Amounts == {-1, 0, 1}
NFTKeys == {<<1, 1>>}
PosPrices == {1}
Prices == {-1, 0, 1}
\* currency_token_id IS NULL
NoCurrency == 0
Currencies == {NoCurrency}
AnyCurrencies == {NoCurrency, 1}
\* expires_at IS NULL
NoExpiry == -1
Expiries == {NoExpiry, 0}
\* subscriber streams (StreamOut objects)
Streams == {"s1", "s2"}

VARIABLES
    tokens,     \* tokens table: id -> [is_mintable, is_burnable]
    wallets,    \* wallets table: address -> user_id
    balances,   \* token_balances table: <<address, tokenId>> -> balance
    nfts,       \* nft_metadata table: <<tokenId, tokenNumber>> -> owner_address
    listings,   \* marketplace_listings table: id (1..Len) -> row
    now,        \* the clock read by new Date()
    pc,         \* per request slot: the statement the handler awaits next
    req,        \* per request slot: the request being served
    sess,       \* per request slot: "tx" when the statements after BEGIN run in BEGIN's session
    pend,       \* per request slot: uncommitted row versions written in its open transaction
    res,        \* per request slot: outcome of the last finished call
    calls,      \* number of requests accepted so far
    wrote,      \* per request slot: the tables in which the request has changed committed rows (history)
    inserts,    \* rows ever inserted, per wallet address and per balance key (history; rows are never deleted)
    events,     \* blockchain_events table: the number of rows (ids 1..events)
    connectedStreams,   \* the module's Set of subscriber streams, in insertion order
    sending     \* send() promises: <<stream, event id, "pending">>, or "rejected" with its .catch not run yet

vars == <<tokens, wallets, balances, nfts, listings, now, pc, req, sess, pend, res, calls, wrote,
          inserts, events, connectedStreams, sending>>

dbVars == <<tokens, wallets, balances, nfts, listings>>

evVars == <<events, connectedStreams, sending>>

\* ---------------------------------------------------------------- rows and results
NoPend == [bal |-> <<>>, lst |-> <<>>, nft |-> <<>>]
NoReq == [op |-> "none"]

OK == "ok"
ErrMissing == "Missing required parameters"
ErrTokenNotFound == "Token not found"
ErrNotMintable == "Token is not mintable"
ErrNotBurnable == "Token is not burnable"
ErrInsufficientBurn == "Insufficient balance to burn"
ErrInsufficientTransfer == "Insufficient balance to transfer"
ErrDuplicateKey == "duplicate key value violates unique constraint"
ErrStore == "store failure"

\* !req.tokenId / !req.listingId : a number is missing when it is 0
MissingNum(n) == n = 0
\* !req.toAddress / !req.fromAddress : a string is missing when it is empty
MissingStr(s) == s = ""

\* ---------------------------------------------------------------- store primitives
\* Rows some other open transaction has written and not yet committed: a
\* writer of such a row waits for that transaction to end.
BalLockedByOther(p, k) == \E q \in Procs \ {p} : k \in DOMAIN pend[q].bal

\* a statement that does not see the rows its own transaction has written
ViewBalCommittedOnly(p) == balances

\* What a statement of p sees: the committed rows, overlaid with the row
\* versions p's own open transaction has written.
ViewBal(p) == pend[p].bal @@ balances

\* the debit adds the amount (sign slip)
DebitRowAdds(b, k, a) == IF k \in DOMAIN b THEN [b EXCEPT ![k] = @ + a] ELSE b

\* UPDATE token_balances SET balance = balance - a WHERE wallet_id = .. AND token_id = ..
DebitRow(b, k, a) == IF k \in DOMAIN b THEN [b EXCEPT ![k] = @ - a] ELSE b

\* on conflict the row is overwritten with the amount instead of raised by it
UpsertRowOverwrites(b, k, a) == (k :> a) @@ b

\* INSERT INTO token_balances .. ON CONFLICT (wallet_id, token_id) DO UPDATE SET balance = balance + a
UpsertRow(b, k, a) == IF k \in DOMAIN b THEN [b EXCEPT ![k] = @ + a] ELSE (k :> a) @@ b

\* One write statement of request p on balance row k: applied to the
\* committed table when the statement autocommits, kept as an uncommitted
\* row version when it runs inside p's open transaction.
WriteBal(p, mode, k, newTable) ==
    IF mode = "tx"
    THEN /\ pend' = [pend EXCEPT ![p].bal =
                        IF k \in DOMAIN newTable THEN (k :> newTable[k]) @@ @ ELSE @]
         /\ UNCHANGED balances
    ELSE /\ balances' = newTable
         /\ UNCHANGED pend

\* INSERT INTO wallets (address, user_id, wallet_type) VALUES (.., 'system', 'EOA')
InsertWallet(w, addr) == (addr :> "system") @@ w

\* the tables whose committed rows the step changes
Changed ==
    (IF wallets' # wallets THEN {"wallets"} ELSE {})
        \cup (IF balances' # balances THEN {"balances"} ELSE {})
        \cup (IF listings' # listings THEN {"listings"} ELSE {})
        \cup (IF nfts' # nfts THEN {"nfts"} ELSE {})

Wrote(p) == wrote' = [wrote EXCEPT ![p] = @ \cup Changed]

\* the statement inserts a new token_balances row for each key of keys
InsertedBalances(keys) ==
    inserts' = [inserts EXCEPT !.balances =
                   [k \in DOMAIN inserts.balances |->
                       IF k \in keys THEN inserts.balances[k] + 1 ELSE inserts.balances[k]]]

NoInserts == [wallets |-> [a \in Addrs |-> 0], balances |-> [k \in Addrs \X AnyTokenIds |-> 0]]

Finish(p, r) ==
    /\ pc' = [pc EXCEPT ![p] = "idle"]
    /\ res' = [res EXCEPT ![p] = r]

Goto(p, l) ==
    /\ pc' = [pc EXCEPT ![p] = l]
    /\ UNCHANGED res

\* A request arrives in slot p; the handler validates its fields and, when
\* they are present, goes on to its first statement.  Request slots are
\* interchangeable, so a request takes the lowest free one.  req and res
\* keep a finished call's request and outcome until the next request arrives.
CallBound(op) ==
    IF op \in {"mint", "burn", "transfer"} THEN MaxTokenCalls
    ELSE IF op = "createEvent" THEN MaxEvents
    ELSE MaxCalls

Accept(p, r, missing, err, first) ==
    /\ pc[p] = "idle"
    /\ \A q \in Procs : q < p => pc[q] # "idle"
    /\ calls < CallBound(r.op)
    /\ calls' = calls + 1
    /\ req' = [q \in Procs |-> IF q = p THEN r ELSE IF pc[q] = "idle" THEN NoReq ELSE req[q]]
    /\ res' = [q \in Procs |-> IF q = p THEN (IF missing THEN err ELSE "none")
                               ELSE IF pc[q] = "idle" THEN "none" ELSE res[q]]
    /\ pc' = [pc EXCEPT ![p] = IF missing THEN "idle" ELSE first]
    /\ wrote' = [q \in Procs |-> IF q = p \/ pc[q] = "idle" THEN {} ELSE wrote[q]]
    /\ UNCHANGED <<dbVars, now, sess, pend, inserts, evVars>>

\* ---------------------------------------------------------------- mintToken
\* the flag is not tested
TokenGateIgnoresFlag(t, missing, flag, errFlag) ==
    IF missing THEN ErrMissing
    ELSE IF t \notin DOMAIN tokens THEN ErrTokenNotFound
    ELSE OK

\* The request's validation and the SELECT on tokens.  No operation changes
\* the tokens table, so the SELECT is taken together with the validation.
TokenGate(t, missing, flag, errFlag) ==
    IF missing THEN ErrMissing
    ELSE IF t \notin DOMAIN tokens THEN ErrTokenNotFound
    ELSE IF ~tokens[t][flag] THEN errFlag
    ELSE OK

MintToken(p, t, addr, amt) ==
    /\ pc[p] = "idle"
    /\ LET g == TokenGate(t, MissingNum(t) \/ MissingStr(addr), "is_mintable", ErrNotMintable) IN
       Accept(p, [op |-> "mint", tokenId |-> t, to |-> addr, amount |-> amt],
              g # OK, g, "m_wallet")

MintSelectWallet(p) ==
    /\ pc[p] = "m_wallet"
    /\ Goto(p, IF req[p].to \in DOMAIN wallets THEN "m_upsert" ELSE "m_newwallet")
    /\ UNCHANGED <<dbVars, now, req, sess, pend, calls, wrote, inserts, evVars>>

\* the INSERT on a wallets table without UNIQUE(address)
MintInsertWalletNoUnique(p) ==
    /\ pc[p] = "m_newwallet"
    /\ Goto(p, "m_upsert")
    /\ wallets' = InsertWallet(wallets, req[p].to)
    /\ inserts' = [inserts EXCEPT !.wallets[req[p].to] = @ + 1]
    /\ UNCHANGED <<tokens, balances, nfts, listings, now, req, sess, pend, calls, evVars>>
    /\ Wrote(p)

\* INSERT INTO wallets (address, user_id, wallet_type) VALUES (.., 'system', 'EOA')
MintInsertWallet(p) ==
    /\ pc[p] = "m_newwallet"
    /\ IF req[p].to \in DOMAIN wallets
       THEN Finish(p, ErrDuplicateKey) /\ UNCHANGED <<wallets, inserts>>
       ELSE Goto(p, "m_upsert") /\ wallets' = InsertWallet(wallets, req[p].to)
            /\ inserts' = [inserts EXCEPT !.wallets[req[p].to] = @ + 1]
    /\ UNCHANGED <<tokens, balances, nfts, listings, now, req, sess, pend, calls, evVars>>
    /\ Wrote(p)

MintUpsert(p) ==
    /\ pc[p] = "m_upsert"
    /\ LET k == <<req[p].to, req[p].tokenId>> IN
       /\ ~BalLockedByOther(p, k)
       /\ balances' = UpsertRow(balances, k, req[p].amount)
       /\ InsertedBalances(IF k \in DOMAIN balances THEN {} ELSE {k})
    /\ Finish(p, OK)
    /\ UNCHANGED <<tokens, wallets, nfts, listings, now, req, sess, pend, calls, evVars>>
    /\ Wrote(p)

\* ---------------------------------------------------------------- burnToken
BurnToken(p, t, addr, amt) ==
    /\ pc[p] = "idle"
    /\ LET g == TokenGate(t, MissingNum(t) \/ MissingStr(addr), "is_burnable", ErrNotBurnable) IN
       Accept(p, [op |-> "burn", tokenId |-> t, from |-> addr, amount |-> amt],
              g # OK, g, "b_check")

\* the test accepts an amount one above the balance
SufficientBalanceOffByOne(k, amt) == k \in DOMAIN balances /\ ~(balances[k] + 1 < amt)

\* the balance SELECT (joined with wallets) and the test on its result
SufficientBalance(k, amt) == k \in DOMAIN balances /\ ~(balances[k] < amt)

BurnCheck(p) ==
    /\ pc[p] = "b_check"
    /\ LET k == <<req[p].from, req[p].tokenId>> IN
       IF SufficientBalance(k, req[p].amount)
       THEN Goto(p, "b_debit")
       ELSE Finish(p, ErrInsufficientBurn)
    /\ UNCHANGED <<dbVars, now, req, sess, pend, calls, wrote, inserts, evVars>>

BurnDebit(p) ==
    /\ pc[p] = "b_debit"
    /\ LET k == <<req[p].from, req[p].tokenId>> IN
       /\ ~BalLockedByOther(p, k)
       /\ balances' = DebitRow(balances, k, req[p].amount)
    /\ Finish(p, OK)
    /\ UNCHANGED <<tokens, wallets, nfts, listings, now, req, sess, pend, calls, inserts, evVars>>
    /\ Wrote(p)

\* ---------------------------------------------------------------- transferToken
TransferToken(p, t, from, to, amt) ==
    /\ pc[p] = "idle"
    /\ Accept(p, [op |-> "transfer", tokenId |-> t, from |-> from, to |-> to, amount |-> amt],
           MissingNum(t) \/ MissingStr(from) \/ MissingStr(to), ErrMissing, "t_check")

TransferCheck(p) ==
    /\ pc[p] = "t_check"
    /\ LET k == <<req[p].from, req[p].tokenId>> IN
       IF SufficientBalance(k, req[p].amount)
       THEN Goto(p, "t_wallet")
       ELSE Finish(p, ErrInsufficientTransfer)
    /\ UNCHANGED <<dbVars, now, req, sess, pend, calls, wrote, inserts, evVars>>

TransferSelectWallet(p) ==
    /\ pc[p] = "t_wallet"
    /\ Goto(p, IF req[p].to \in DOMAIN wallets THEN "t_begin" ELSE "t_newwallet")
    /\ UNCHANGED <<dbVars, now, req, sess, pend, calls, wrote, inserts, evVars>>

TransferInsertWallet(p) ==
    /\ pc[p] = "t_newwallet"
    /\ IF req[p].to \in DOMAIN wallets
       THEN Finish(p, ErrDuplicateKey) /\ UNCHANGED <<wallets, inserts>>
       ELSE Goto(p, "t_begin") /\ wallets' = InsertWallet(wallets, req[p].to)
            /\ inserts' = [inserts EXCEPT !.wallets[req[p].to] = @ + 1]
    /\ UNCHANGED <<tokens, balances, nfts, listings, now, req, sess, pend, calls, evVars>>
    /\ Wrote(p)

\* tokenDB.exec`BEGIN`: exec runs each statement on a connection taken from
\* the database pool, so the statements that follow run in the session that
\* BEGIN opened ("tx") or on other connections, each committing on its own
\* ("auto"); the pool decides.
BeginModes == {"tx", "auto"}

\* BEGIN and the sender's debit.  BEGIN reads and writes no row, so it is
\* taken together with the statement that follows it.
TransferDebit(p) ==
    /\ pc[p] = "t_begin"
    /\ \E m \in BeginModes :
         /\ sess' = [sess EXCEPT ![p] = m]
         /\ LET k == <<req[p].from, req[p].tokenId>> IN
            /\ ~BalLockedByOther(p, k)
            /\ WriteBal(p, m, k, DebitRow(ViewBal(p), k, req[p].amount))
    /\ Goto(p, "t_credit")
    /\ UNCHANGED <<tokens, wallets, nfts, listings, now, req, calls, inserts, evVars>>
    /\ Wrote(p)

TransferCredit(p) ==
    /\ pc[p] = "t_credit"
    /\ LET k == <<req[p].to, req[p].tokenId>> IN
       /\ ~BalLockedByOther(p, k)
       /\ WriteBal(p, sess[p], k, UpsertRow(ViewBal(p), k, req[p].amount))
       /\ InsertedBalances(IF sess[p] = "auto" /\ k \notin DOMAIN balances THEN {k} ELSE {})
    /\ Goto(p, "t_commit")
    /\ UNCHANGED <<tokens, wallets, nfts, listings, now, req, sess, calls, evVars>>
    /\ Wrote(p)

TransferCommit(p) ==
    /\ pc[p] = "t_commit"
    /\ balances' = pend[p].bal @@ balances
    /\ InsertedBalances(DOMAIN pend[p].bal \ DOMAIN balances)
    /\ pend' = [pend EXCEPT ![p] = NoPend]
    /\ sess' = [sess EXCEPT ![p] = "auto"]
    /\ Finish(p, OK)
    /\ UNCHANGED <<tokens, wallets, nfts, listings, now, req, calls, evVars>>
    /\ Wrote(p)

\* catch (error) { ROLLBACK; throw error }
TransferRollback(p) ==
    /\ pc[p] = "t_rollback"
    /\ pend' = [pend EXCEPT ![p] = NoPend]
    /\ sess' = [sess EXCEPT ![p] = "auto"]
    /\ pc' = [pc EXCEPT ![p] = "idle"]
    /\ UNCHANGED <<dbVars, now, req, res, calls, wrote, inserts, evVars>>

\* A statement inside the try block is rejected by the store (connection
\* lost, or the transaction chosen as the victim of a deadlock).
TransferStoreFailure(p) ==
    /\ pc[p] \in {"t_begin", "t_credit", "t_commit"}
    /\ pc' = [pc EXCEPT ![p] = "t_rollback"]
    /\ res' = [res EXCEPT ![p] = ErrStore]
    /\ UNCHANGED <<dbVars, now, req, sess, pend, calls, wrote, inserts, evVars>>

\* ---------------------------------------------------------------- marketplace store primitives
NoBuyer == ""

ErrNFTRequired == "tokenId, tokenNumber, and ownerAddress are required"
ErrListingRequired == "tokenId, tokenNumber, sellerAddress, and price are required"
ErrBuyRequired == "listingId and buyerAddress are required"
ErrCancelRequired == "listingId and sellerAddress are required"
ErrForeignKey == "violates foreign key constraint"
ErrNFTNotFound == "NFT not found"
ErrNotOwner == "You don't own this NFT"
ErrListingNotFound == "Listing not found or no longer active"
ErrListingExpired == "Listing has expired"
ErrCancelNotFound == "Listing not found or you're not the seller"

ListingIds == 1..Len(listings)

LstLockedByOther(p, id) == \E q \in Procs \ {p} : id \in DOMAIN pend[q].lst
NftLockedByOther(p, k) == \E q \in Procs \ {p} : k \in DOMAIN pend[q].nft

\* UPDATE marketplace_listings SET status = 'sold', sold_at = NOW(), buyer_address = .. WHERE id = ..
\* (sold_at is written and never read; the model leaves the column out)
SoldRow(row, buyer) == [row EXCEPT !.status = "sold", !.buyerAddress = buyer]

\* listing.expires_at && new Date() > listing.expires_at
Expired(row) == row.expiresAt # NoExpiry /\ now > row.expiresAt

\* ---------------------------------------------------------------- createNFT
CreateNFT(p, k, owner) ==
    /\ pc[p] = "idle"
    /\ Accept(p, [op |-> "createNFT", key |-> k, owner |-> owner],
           MissingNum(k[1]) \/ MissingNum(k[2]) \/ MissingStr(owner), ErrNFTRequired, "cn_insert")

CreateNFTInsert(p) ==
    /\ pc[p] = "cn_insert"
    /\ LET k == req[p].key IN
       IF k[1] \notin DOMAIN tokens
       THEN Finish(p, ErrForeignKey) /\ UNCHANGED nfts
       ELSE IF k \in DOMAIN nfts
       THEN Finish(p, ErrDuplicateKey) /\ UNCHANGED nfts
       ELSE Finish(p, OK) /\ nfts' = (k :> req[p].owner) @@ nfts
    /\ UNCHANGED <<tokens, wallets, balances, listings, now, req, sess, pend, calls, inserts, evVars>>
    /\ Wrote(p)

\* ---------------------------------------------------------------- createListing
\* listing rows not yet inserted by requests that passed the ownership check
InsertsInFlight == Cardinality({q \in Procs : pc[q] \in {"cl_nft", "cl_insert"}})

CreateListing(p, k, seller, price, cur, exp) ==
    /\ Len(listings) + InsertsInFlight < MaxListings
    /\ Accept(p, [op |-> "createListing", key |-> k, seller |-> seller,
                  price |-> price, currencyTokenId |-> cur, expiresAt |-> exp],
              MissingNum(k[1]) \/ MissingNum(k[2]) \/ MissingStr(seller),
              ErrListingRequired, "cl_nft")

\* the owner read from nft_metadata is not compared with the seller
CreateListingSelectNFTAnySeller(p) ==
    /\ pc[p] = "cl_nft"
    /\ LET k == req[p].key IN
       IF k \notin DOMAIN nfts
       THEN Finish(p, ErrNFTNotFound)
       ELSE Goto(p, "cl_insert")
    /\ UNCHANGED <<dbVars, now, req, sess, pend, calls, wrote, inserts, evVars>>

CreateListingSelectNFT(p) ==
    /\ pc[p] = "cl_nft"
    /\ LET k == req[p].key IN
       IF k \notin DOMAIN nfts
       THEN Finish(p, ErrNFTNotFound)
       ELSE IF nfts[k] # req[p].seller
       THEN Finish(p, ErrNotOwner)
       ELSE Goto(p, "cl_insert")
    /\ UNCHANGED <<dbVars, now, req, sess, pend, calls, wrote, inserts, evVars>>

CreateListingInsert(p) ==
    /\ pc[p] = "cl_insert"
    /\ listings' = Append(listings,
          [tokenId |-> req[p].key[1], tokenNumber |-> req[p].key[2],
           sellerAddress |-> req[p].seller, price |-> req[p].price,
           currencyTokenId |-> req[p].currencyTokenId,
           status |-> "active", expiresAt |-> req[p].expiresAt,
           buyerAddress |-> NoBuyer])
    /\ Finish(p, OK)
    /\ UNCHANGED <<tokens, wallets, balances, nfts, now, req, sess, pend, calls, inserts, evVars>>
    /\ Wrote(p)

\* ---------------------------------------------------------------- buyNFT
BuyNFT(p, id, buyer) ==
    /\ pc[p] = "idle"
    /\ Accept(p, [op |-> "buy", listingId |-> id, buyer |-> buyer],
           MissingNum(id) \/ MissingStr(buyer), ErrBuyRequired, "by_select")

BuySelectListing(p) ==
    /\ pc[p] = "by_select"
    /\ LET id == req[p].listingId IN
       IF ~(id \in ListingIds /\ listings[id].status = "active")
       THEN Finish(p, ErrListingNotFound)
       ELSE IF Expired(listings[id])
       THEN Finish(p, ErrListingExpired)
       ELSE Goto(p, "by_begin")
    /\ UNCHANGED <<dbVars, now, req, sess, pend, calls, wrote, inserts, evVars>>

\* BEGIN and the UPDATE of the listing row (BEGIN touches no row).
BuyUpdateListing(p) ==
    /\ pc[p] = "by_begin"
    /\ LET id == req[p].listingId IN
       /\ ~LstLockedByOther(p, id)
       /\ \E m \in BeginModes :
            /\ sess' = [sess EXCEPT ![p] = m]
            /\ IF m = "tx"
               THEN /\ pend' = [pend EXCEPT ![p].lst = (id :> SoldRow(listings[id], req[p].buyer)) @@ @]
                    /\ UNCHANGED listings
               ELSE /\ listings' = [listings EXCEPT ![id] = SoldRow(@, req[p].buyer)]
                    /\ UNCHANGED pend
    /\ Goto(p, "by_nft")
    /\ UNCHANGED <<tokens, wallets, balances, nfts, now, req, calls, inserts, evVars>>
    /\ Wrote(p)

\* WHERE token_id = listing.token_id AND token_number = listing.token_number
ListingKey(id) == <<listings[id].tokenId, listings[id].tokenNumber>>

\* the purchase also takes the price out of the buyer's balance of the
\* listing's currency token
BuyUpdateNFTAndPay(p) ==
    /\ pc[p] = "by_nft"
    /\ LET id == req[p].listingId
           k == ListingKey(id)
       IN  /\ ~NftLockedByOther(p, k)
           /\ IF k \notin DOMAIN nfts
              THEN UNCHANGED <<nfts, pend>>
              ELSE IF sess[p] = "tx"
              THEN /\ pend' = [pend EXCEPT ![p].nft = (k :> req[p].buyer) @@ @]
                   /\ UNCHANGED nfts
              ELSE /\ nfts' = [nfts EXCEPT ![k] = req[p].buyer]
                   /\ UNCHANGED pend
           /\ balances' = IF listings[id].currencyTokenId = NoCurrency
                           THEN balances
                           ELSE DebitRow(balances, <<req[p].buyer, listings[id].currencyTokenId>>,
                                         listings[id].price)
    /\ Goto(p, "by_commit")
    /\ UNCHANGED <<tokens, wallets, listings, now, req, sess, calls, inserts, evVars>>
    /\ Wrote(p)

BuyUpdateNFT(p) ==
    /\ pc[p] = "by_nft"
    /\ LET k == ListingKey(req[p].listingId) IN
       /\ ~NftLockedByOther(p, k)
       /\ IF k \notin DOMAIN nfts
          THEN UNCHANGED <<nfts, pend>>
          ELSE IF sess[p] = "tx"
          THEN /\ pend' = [pend EXCEPT ![p].nft = (k :> req[p].buyer) @@ @]
               /\ UNCHANGED nfts
          ELSE /\ nfts' = [nfts EXCEPT ![k] = req[p].buyer]
               /\ UNCHANGED pend
    /\ Goto(p, "by_commit")
    /\ UNCHANGED <<tokens, wallets, balances, listings, now, req, sess, calls, inserts, evVars>>
    /\ Wrote(p)

\* the committed listings table with the row versions of a transaction applied
CommitListings(w) == [id \in ListingIds |-> IF id \in DOMAIN w THEN w[id] ELSE listings[id]]

BuyCommit(p) ==
    /\ pc[p] = "by_commit"
    /\ listings' = CommitListings(pend[p].lst)
    /\ nfts' = pend[p].nft @@ nfts
    /\ pend' = [pend EXCEPT ![p] = NoPend]
    /\ sess' = [sess EXCEPT ![p] = "auto"]
    /\ Finish(p, OK)
    /\ UNCHANGED <<tokens, wallets, balances, now, req, calls, inserts, evVars>>
    /\ Wrote(p)

BuyRollback(p) ==
    /\ pc[p] = "by_rollback"
    /\ pend' = [pend EXCEPT ![p] = NoPend]
    /\ sess' = [sess EXCEPT ![p] = "auto"]
    /\ pc' = [pc EXCEPT ![p] = "idle"]
    /\ UNCHANGED <<dbVars, now, req, res, calls, wrote, inserts, evVars>>

BuyStoreFailure(p) ==
    /\ pc[p] \in {"by_begin", "by_nft", "by_commit"}
    /\ pc' = [pc EXCEPT ![p] = "by_rollback"]
    /\ res' = [res EXCEPT ![p] = ErrStore]
    /\ UNCHANGED <<dbVars, now, req, sess, pend, calls, wrote, inserts, evVars>>

\* ---------------------------------------------------------------- cancelListing
\* the UPDATE matches the listing whoever asks
CancelMatchesAnySeller(id, seller) ==
    /\ id \in ListingIds
    /\ listings[id].status = "active"

\* WHERE id = .. AND seller_address = .. AND status = 'active'
CancelMatches(id, seller) ==
    /\ id \in ListingIds
    /\ listings[id].sellerAddress = seller
    /\ listings[id].status = "active"

CancelListing(p, id, seller) ==
    /\ pc[p] = "idle"
    /\ Accept(p, [op |-> "cancel", listingId |-> id, seller |-> seller],
           MissingNum(id) \/ MissingStr(seller), ErrCancelRequired, "ca_update")

CancelUpdate(p) ==
    /\ pc[p] = "ca_update"
    /\ LET id == req[p].listingId IN
       /\ ~LstLockedByOther(p, id)
       /\ IF CancelMatches(id, req[p].seller)
          THEN Finish(p, OK) /\ listings' = [listings EXCEPT ![id].status = "cancelled"]
          ELSE Finish(p, ErrCancelNotFound) /\ UNCHANGED listings
    /\ UNCHANGED <<tokens, wallets, balances, nfts, now, req, sess, pend, calls, inserts, evVars>>
    /\ Wrote(p)

\* ---------------------------------------------------------------- events
ErrMissingField == "Missing field"

\* connectedStreams.delete(stream)
DeleteStream(streams, s) == SelectSeq(streams, LAMBDA x : x # s)

IsConnected(s) == \E i \in 1..Len(connectedStreams) : connectedStreams[i] = s

\* eventStream: connectedStreams.add(stream) for a new connection
EventStream(s) ==
    /\ ~IsConnected(s)
    /\ \A e \in 1..events, st \in {"pending", "rejected"} : <<s, e, st>> \notin sending
    /\ connectedStreams' = Append(connectedStreams, s)
    /\ UNCHANGED <<dbVars, now, pc, req, sess, pend, res, calls, wrote, inserts, events, sending>>

\* eventStream's finally block, after the client closed the stream or a
\* replayed send failed: connectedStreams.delete(stream)
StreamClose(s) ==
    /\ IsConnected(s)
    /\ connectedStreams' = DeleteStream(connectedStreams, s)
    /\ UNCHANGED <<dbVars, now, pc, req, sess, pend, res, calls, wrote, inserts, events, sending>>

CreateEvent(p) ==
    /\ pc[p] = "idle"
    /\ Accept(p, [op |-> "createEvent", id |-> 0], FALSE, ErrMissingField, "ev_insert")

\* INSERT INTO blockchain_events .. RETURNING id
CreateEventInsert(p) ==
    /\ pc[p] = "ev_insert"
    /\ events' = events + 1
    /\ req' = [req EXCEPT ![p].id = events + 1]
    /\ Goto(p, "ev_broadcast")
    /\ UNCHANGED <<dbVars, now, sess, pend, calls, wrote, inserts, connectedStreams, sending>>

\* the broadcast waits until the sends of earlier events have settled
BroadcastAwaitsSends(p) ==
    /\ pc[p] = "ev_broadcast"
    /\ sending = {}
    /\ sending' = {<<connectedStreams[i], req[p].id, "pending">> : i \in 1..Len(connectedStreams)}
    /\ Finish(p, OK)
    /\ UNCHANGED <<dbVars, now, req, sess, pend, calls, wrote, inserts, events, connectedStreams>>

\* broadcastEvent and the return: the loop calls stream.send(event) on every
\* stream of the Set and attaches .catch to the promise it returns; no
\* promise is awaited, and the handler returns the event.
CreateEventBroadcast(p) ==
    /\ pc[p] = "ev_broadcast"
    /\ sending' = sending \cup
          {<<connectedStreams[i], req[p].id, "pending">> : i \in 1..Len(connectedStreams)}
    /\ Finish(p, OK)
    /\ UNCHANGED <<dbVars, now, req, sess, pend, calls, wrote, inserts, events, connectedStreams>>

\* a send promise resolves
SendResolves(s, e) ==
    /\ <<s, e, "pending">> \in sending
    /\ sending' = sending \ {<<s, e, "pending">>}
    /\ UNCHANGED <<dbVars, now, pc, req, sess, pend, res, calls, wrote, inserts, events, connectedStreams>>

\* a send promise rejects (the subscriber is gone, or send threw inside)
SendRejects(s, e) ==
    /\ <<s, e, "pending">> \in sending
    /\ sending' = (sending \ {<<s, e, "pending">>}) \cup {<<s, e, "rejected">>}
    /\ UNCHANGED <<dbVars, now, pc, req, sess, pend, res, calls, wrote, inserts, events, connectedStreams>>

\* the rejection is handled and the subscriber stays in the Set
CatchKeepsStream(s, e) ==
    /\ <<s, e, "rejected">> \in sending
    /\ sending' = sending \ {<<s, e, "rejected">>}
    /\ UNCHANGED <<dbVars, now, pc, req, sess, pend, res, calls, wrote, inserts, events, connectedStreams>>

\* .catch(() => { connectedStreams.delete(stream) })
CatchRejected(s, e) ==
    /\ <<s, e, "rejected">> \in sending
    /\ sending' = sending \ {<<s, e, "rejected">>}
    /\ connectedStreams' = DeleteStream(connectedStreams, s)
    /\ UNCHANGED <<dbVars, now, pc, req, sess, pend, res, calls, wrote, inserts, events>>

\* time passes
Tick ==
    /\ now < MaxTime
    /\ now' = now + 1
    /\ UNCHANGED <<dbVars, pc, req, sess, pend, res, calls, wrote, inserts, evVars>>

\* ---------------------------------------------------------------- specifications
Init ==
    /\ tokens = (1 :> [is_mintable |-> TRUE, is_burnable |-> TRUE])
    /\ wallets = <<>>
    /\ balances = <<>>
    /\ nfts = <<>>
    /\ listings = <<>>
    /\ now = 0
    /\ pc = [p \in Procs |-> "idle"]
    /\ req = [p \in Procs |-> NoReq]
    /\ sess = [p \in Procs |-> "auto"]
    /\ pend = [p \in Procs |-> NoPend]
    /\ res = [p \in Procs |-> "none"]
    /\ calls = 0
    /\ wrote = [p \in Procs |-> {}]
    /\ inserts = NoInserts
    /\ events = 0
    /\ connectedStreams = <<>>
    /\ sending = {}

NextToken ==
    \E p \in Procs :
        \/ \E t \in TokenIds, a \in Addrs, n \in PosAmounts : MintToken(p, t, a, n)
        \/ MintSelectWallet(p)
        \/ MintInsertWallet(p)
        \/ MintUpsert(p)
        \/ \E t \in TokenIds, a \in Addrs, n \in PosAmounts : BurnToken(p, t, a, n)
        \/ BurnCheck(p)
        \/ BurnDebit(p)
        \/ \E t \in TokenIds, a \in Addrs, b \in Addrs, n \in PosAmounts : TransferToken(p, t, a, b, n)
        \/ TransferCheck(p)
        \/ TransferSelectWallet(p)
        \/ TransferInsertWallet(p)
        \/ TransferDebit(p)
        \/ TransferCredit(p)
        \/ TransferCommit(p)
        \/ TransferRollback(p)
        \/ TransferStoreFailure(p)

SpecToken == Init /\ [][NextToken]_vars

\* The token operations one call at a time: a single slot serves every
\* request, so a call starts only after the previous one has returned.
NextSeq ==
    \E p \in {1} :
        \/ \E t \in TokenIds, a \in Addrs, n \in PosAmounts : MintToken(p, t, a, n)
        \/ MintSelectWallet(p)
        \/ MintInsertWallet(p)
        \/ MintUpsert(p)
        \/ \E t \in TokenIds, a \in Addrs, n \in PosAmounts : BurnToken(p, t, a, n)
        \/ BurnCheck(p)
        \/ BurnDebit(p)
        \/ \E t \in TokenIds, a \in Addrs, b \in Addrs, n \in PosAmounts : TransferToken(p, t, a, b, n)
        \/ TransferCheck(p)
        \/ TransferSelectWallet(p)
        \/ TransferInsertWallet(p)
        \/ TransferDebit(p)
        \/ TransferCredit(p)
        \/ TransferCommit(p)
        \/ TransferRollback(p)
        \/ TransferStoreFailure(p)

SpecSeq == Init /\ [][NextSeq]_vars

\* The token operations with amounts of either sign: req.amount is a string
\* and "0" and "-1" are not falsy, so they pass !req.amount.
NextAmount ==
    \E p \in Procs :
        \/ \E t \in TokenIds, a \in Addrs, n \in Amounts : MintToken(p, t, a, n)
        \/ MintSelectWallet(p)
        \/ MintInsertWallet(p)
        \/ MintUpsert(p)
        \/ \E t \in TokenIds, a \in Addrs, n \in Amounts : BurnToken(p, t, a, n)
        \/ BurnCheck(p)
        \/ BurnDebit(p)
        \/ \E t \in TokenIds, a \in Addrs, b \in Addrs, n \in Amounts : TransferToken(p, t, a, b, n)
        \/ TransferCheck(p)
        \/ TransferSelectWallet(p)
        \/ TransferInsertWallet(p)
        \/ TransferDebit(p)
        \/ TransferCredit(p)
        \/ TransferCommit(p)
        \/ TransferRollback(p)
        \/ TransferStoreFailure(p)

SpecAmount == Init /\ [][NextAmount]_vars

\* Mints and burns on a token with either setting of its flags, and on a
\* token id that has no row.
InitFlags ==
    /\ tokens \in {(1 :> [is_mintable |-> m, is_burnable |-> b]) : m, b \in BOOLEAN}
    /\ wallets = <<>>
    /\ balances = <<>>
    /\ nfts = <<>>
    /\ listings = <<>>
    /\ now = 0
    /\ pc = [p \in Procs |-> "idle"]
    /\ req = [p \in Procs |-> NoReq]
    /\ sess = [p \in Procs |-> "auto"]
    /\ pend = [p \in Procs |-> NoPend]
    /\ res = [p \in Procs |-> "none"]
    /\ calls = 0
    /\ wrote = [p \in Procs |-> {}]
    /\ inserts = NoInserts
    /\ events = 0
    /\ connectedStreams = <<>>
    /\ sending = {}

NextFlags ==
    \E p \in Procs :
        \/ \E t \in AnyTokenIds, a \in Addrs, n \in PosAmounts : MintToken(p, t, a, n)
        \/ MintSelectWallet(p)
        \/ MintInsertWallet(p)
        \/ MintUpsert(p)
        \/ \E t \in AnyTokenIds, a \in Addrs, n \in PosAmounts : BurnToken(p, t, a, n)
        \/ BurnCheck(p)
        \/ BurnDebit(p)

SpecFlags == InitFlags /\ [][NextFlags]_vars

NextMarket ==
    \/ Tick
    \/ \E p \in Procs :
        \/ \E k \in NFTKeys, a \in Addrs : CreateNFT(p, k, a)
        \/ \E k \in NFTKeys, a \in Addrs, pr \in PosPrices, c \in Currencies, e \in Expiries :
              CreateListing(p, k, a, pr, c, e)
        \/ CreateNFTInsert(p)
        \/ CreateListingSelectNFT(p)
        \/ CreateListingInsert(p)
        \/ \E id \in 1..MaxListings, a \in Addrs : BuyNFT(p, id, a)
        \/ BuySelectListing(p)
        \/ BuyUpdateListing(p)
        \/ BuyUpdateNFT(p)
        \/ BuyCommit(p)
        \/ BuyRollback(p)
        \/ BuyStoreFailure(p)
        \/ \E id \in 1..MaxListings, a \in Addrs : CancelListing(p, id, a)
        \/ CancelUpdate(p)

SpecMarket == Init /\ [][NextMarket]_vars

\* Listings at a price of either sign: req.price is a string and "0" and
\* "-1" are not falsy, so they pass !req.price.
NextPrice ==
    \E p \in Procs :
        \/ \E k \in NFTKeys, a \in Addrs : CreateNFT(p, k, a)
        \/ CreateNFTInsert(p)
        \/ \E k \in NFTKeys, a \in Addrs, pr \in Prices, c \in Currencies, e \in Expiries :
              CreateListing(p, k, a, pr, c, e)
        \/ CreateListingSelectNFT(p)
        \/ CreateListingInsert(p)

SpecPrice == Init /\ [][NextPrice]_vars

\* Purchases of a listing priced in a currency token, or in none, while the
\* buyer and the seller hold balances of the token and mints go on.
InitSettle ==
    /\ tokens = (1 :> [is_mintable |-> TRUE, is_burnable |-> TRUE])
    /\ wallets = [a \in Addrs |-> "system"]
    /\ balances = [k \in Addrs \X {1} |-> 2]
    /\ nfts = (<<1, 1>> :> "a1")
    /\ \E c \in AnyCurrencies :
          listings = <<[tokenId |-> 1, tokenNumber |-> 1, sellerAddress |-> "a1", price |-> 1,
                        currencyTokenId |-> c, status |-> "active", expiresAt |-> NoExpiry,
                        buyerAddress |-> NoBuyer]>>
    /\ now = 0
    /\ pc = [p \in Procs |-> "idle"]
    /\ req = [p \in Procs |-> NoReq]
    /\ sess = [p \in Procs |-> "auto"]
    /\ pend = [p \in Procs |-> NoPend]
    /\ res = [p \in Procs |-> "none"]
    /\ calls = 0
    /\ wrote = [p \in Procs |-> {}]
    /\ inserts = [wallets |-> [a \in Addrs |-> 1],
                  balances |-> [k \in Addrs \X AnyTokenIds |-> IF k[2] = 1 THEN 1 ELSE 0]]
    /\ events = 0
    /\ connectedStreams = <<>>
    /\ sending = {}

NextSettle ==
    \E p \in Procs :
        \/ \E id \in 1..MaxListings, a \in Addrs : BuyNFT(p, id, a)
        \/ BuySelectListing(p)
        \/ BuyUpdateListing(p)
        \/ BuyUpdateNFT(p)
        \/ BuyCommit(p)
        \/ BuyRollback(p)
        \/ BuyStoreFailure(p)
        \/ \E t \in TokenIds, a \in Addrs, n \in PosAmounts : MintToken(p, t, a, n)
        \/ MintSelectWallet(p)
        \/ MintUpsert(p)

SpecSettle == InitSettle /\ [][NextSettle]_vars

\* Mints and transfers between wallets that exist and hold InitialBalance
\* of the token.
InitialBalance == 2

InitCredit ==
    /\ tokens = (1 :> [is_mintable |-> TRUE, is_burnable |-> TRUE])
    /\ wallets = [a \in Addrs |-> "system"]
    /\ balances = [k \in Addrs \X TokenIds |-> InitialBalance]
    /\ nfts = <<>>
    /\ listings = <<>>
    /\ now = 0
    /\ pc = [p \in Procs |-> "idle"]
    /\ req = [p \in Procs |-> NoReq]
    /\ sess = [p \in Procs |-> "auto"]
    /\ pend = [p \in Procs |-> NoPend]
    /\ res = [p \in Procs |-> "none"]
    /\ calls = 0
    /\ wrote = [p \in Procs |-> {}]
    /\ inserts = [wallets |-> [a \in Addrs |-> 1],
                  balances |-> [k \in Addrs \X AnyTokenIds |-> IF k[2] \in TokenIds THEN 1 ELSE 0]]
    /\ events = 0
    /\ connectedStreams = <<>>
    /\ sending = {}

NextCredit ==
    \E p \in Procs :
        \/ \E t \in TokenIds, a \in Addrs, n \in PosAmounts : MintToken(p, t, a, n)
        \/ MintSelectWallet(p)
        \/ MintUpsert(p)
        \/ \E t \in TokenIds, a \in Addrs, b \in Addrs, n \in PosAmounts : TransferToken(p, t, a, b, n)
        \/ TransferCheck(p)
        \/ TransferSelectWallet(p)
        \/ TransferDebit(p)
        \/ TransferCredit(p)
        \/ TransferCommit(p)
        \/ TransferRollback(p)
        \/ TransferStoreFailure(p)

SpecCredit == InitCredit /\ [][NextCredit]_vars

NextEvents ==
    \/ \E s \in Streams : EventStream(s)
    \/ \E s \in Streams : StreamClose(s)
    \/ \E s \in Streams, e \in 1..MaxEvents : SendResolves(s, e)
    \/ \E s \in Streams, e \in 1..MaxEvents : SendRejects(s, e)
    \/ \E s \in Streams, e \in 1..MaxEvents : CatchRejected(s, e)
    \/ \E p \in Procs :
        \/ CreateEvent(p)
        \/ CreateEventInsert(p)
        \/ CreateEventBroadcast(p)

SpecEvents == Init /\ [][NextEvents]_vars

Next == NextToken \/ NextMarket \/ NextEvents

Spec == Init /\ [][Next]_vars

\* ---------------------------------------------------------------- claims
\* the balance row a burn or transfer debits
DebitKey(p) == <<req[p].from, req[p].tokenId>>

\* request p has passed its balance check and has not issued its debit yet
PassedCheck(p) == pc[p] \in {"b_debit", "t_wallet", "t_newwallet", "t_begin"}

\* request p is a finished call of operation op
Finished(p, op) == pc[p] = "idle" /\ req[p].op = op

\* C1: in every reachable state every token_balances row has balance >= 0,
\* also when burns and transfers of the same balance interleave.
C1_BalancesNonNegative == \A k \in DOMAIN balances : balances[k] >= 0

\* C2: double-spend prevention: the balance row is held from the balance
\* check until the debit, so two burn/transfer calls on the same (wallet,
\* token) balance are never both past their check, not yet debited, with
\* amounts that together exceed the balance.
C2_NoDoubleSpend ==
    \A p, q \in Procs :
        (p # q /\ PassedCheck(p) /\ PassedCheck(q) /\ DebitKey(p) = DebitKey(q))
            => req[p].amount + req[q].amount <= balances[DebitKey(p)]

\* C3: transfer atomicity: whenever a step of a transfer changes the
\* balances other requests can read, it shows the sender's debit and the
\* receiver's credit together; a failed transfer shows neither.
C3_TransferAtomic ==
    [][\A p \in Procs :
          (req[p].op = "transfer" /\ pc'[p] # pc[p] /\ balances' # balances)
              => balances' = UpsertRow(DebitRow(balances, DebitKey(p), req[p].amount),
                                       <<req[p].to, req[p].tokenId>>, req[p].amount)]_vars

\* C4: buy exactly-once: two concurrent buyNFT calls on the same listing
\* never both return success.
C4_BuyExactlyOnce ==
    \A p, q \in Procs :
        (p # q /\ Finished(p, "buy") /\ Finished(q, "buy")
              /\ req[p].listingId = req[q].listingId)
            => ~(res[p] = OK /\ res[q] = OK)

\* C5: listing exclusivity: for each (tokenId, tokenNumber) at most one
\* marketplace_listings row has status 'active'.
C5_OneActiveListingPerNFT ==
    \A i, j \in ListingIds :
        (listings[i].status = "active" /\ listings[j].status = "active"
              /\ ListingKey(i) = ListingKey(j))
            => i = j

\* C6: createListing inserts no listing row for a (tokenId, tokenNumber)
\* that already has an active listing.
C6_DuplicateListingRejected ==
    [][Len(listings') > Len(listings)
          => ~\E i \in ListingIds :
                /\ listings[i].status = "active"
                /\ listings[i].tokenId = listings'[Len(listings')].tokenId
                /\ listings[i].tokenNumber = listings'[Len(listings')].tokenNumber]_vars

\* C7: a burn or transfer of amount A from a balance B with A > B fails with
\* the insufficient-balance error and changes no wallet and no balance.
C7_InsufficientRejected ==
    [][\A p \in Procs :
          (/\ pc[p] \in {"b_check", "t_check"}
           /\ pc'[p] # pc[p]
           /\ DebitKey(p) \in DOMAIN balances
           /\ req[p].amount > balances[DebitKey(p)])
              => /\ pc'[p] = "idle"
                 /\ res'[p] = (IF req[p].op = "burn" THEN ErrInsufficientBurn
                                                    ELSE ErrInsufficientTransfer)
                 /\ balances' = balances
                 /\ wallets' = wallets]_vars

\* a burn and a transfer were both refused on a balance smaller than their amount
C7_Witness ==
    \E p, q \in Procs :
        /\ Finished(p, "burn") /\ res[p] = ErrInsufficientBurn
        /\ Finished(q, "transfer") /\ res[q] = ErrInsufficientTransfer
        /\ DebitKey(p) \in DOMAIN balances /\ DebitKey(q) \in DOMAIN balances
        /\ balances[DebitKey(p)] > 0 /\ balances[DebitKey(p)] < req[p].amount
        /\ balances[DebitKey(q)] > 0 /\ balances[DebitKey(q)] < req[q].amount

\* C8: when a listing becomes visible as sold to a buyer, the NFT's
\* ownerAddress is that buyer in the same state (the two writes of a
\* purchase become visible together).
C8_SoldWithOwner ==
    [][\A i \in ListingIds :
          (/\ listings'[i].status = "sold"
           /\ <<listings[i].status, listings[i].buyerAddress>>
                  # <<listings'[i].status, listings'[i].buyerAddress>>)
              => /\ ListingKey(i) \in DOMAIN nfts'
                 /\ nfts'[ListingKey(i)] = listings'[i].buyerAddress]_vars

\* C9: a listing that is sold, cancelled or expired never changes status again.
C9_TerminalStatus ==
    [][\A i \in ListingIds :
          listings[i].status # "active" => listings'[i].status = listings[i].status]_vars

\* C10: expiry-on-read: a buyNFT that fails with ListingExpired leaves the
\* listing's status 'expired'.
C10_ExpiredOnRead ==
    [][\A p \in Procs :
          (pc[p] = "by_select" /\ pc'[p] = "idle" /\ res'[p] = ErrListingExpired)
              => listings'[req[p].listingId].status = "expired"]_vars

\* request p takes a step
Steps(p) == pc'[p] # pc[p]

\* C11: cancel authorization: a cancelListing by an address other than the
\* listing's seller fails with the listing-not-found error and leaves every
\* listing as it was, also when the listing is active; a listing becomes
\* 'cancelled' only in a step of a cancelListing that names its seller, and
\* only from 'active'.
C11_CancelAuthorization ==
    [][/\ \A p \in Procs :
            (/\ pc[p] = "ca_update" /\ Steps(p)
             /\ req[p].listingId \in ListingIds
             /\ listings[req[p].listingId].sellerAddress # req[p].seller)
                => /\ pc'[p] = "idle"
                   /\ res'[p] = ErrCancelNotFound
                   /\ listings' = listings
       /\ \A i \in ListingIds :
            (listings'[i].status = "cancelled" /\ listings[i].status # "cancelled")
                => /\ listings[i].status = "active"
                   /\ \E p \in Procs :
                        /\ pc[p] = "ca_update" /\ Steps(p)
                        /\ req[p].listingId = i
                        /\ req[p].seller = listings[i].sellerAddress]_vars

\* a cancel by an address that is not the seller was refused on a listing
\* that is still active
C11_Witness ==
    \E p \in Procs :
        /\ Finished(p, "cancel") /\ res[p] = ErrCancelNotFound
        /\ req[p].listingId \in ListingIds
        /\ listings[req[p].listingId].status = "active"
        /\ listings[req[p].listingId].sellerAddress # req[p].seller

\* C12: a mint, burn or transfer whose amount is not positive is rejected
\* before any database access: no step of such a request creates or changes
\* a wallet or a balance row, and the request does not succeed.
C12_NonPositiveRejected ==
    [][\A p \in Procs :
          (/\ Steps(p)
           /\ req'[p].op \in {"mint", "burn", "transfer"}
           /\ req'[p].amount <= 0)
              => /\ wallets' = wallets
                 /\ balances' = balances
                 /\ (pc'[p] = "idle" => res'[p] # OK)]_vars

\* the balance row a mint or transfer credits
CreditKey(p) == <<req[p].to, req[p].tokenId>>

\* the balance of row k in table b, an absent row counted as 0
BalanceOf(b, k) == IF k \in DOMAIN b THEN b[k] ELSE 0

\* the step leaves every balance row outside keys as it was
OtherBalancesKept(keys) ==
    \A k \in (DOMAIN balances \cup DOMAIN balances') \ keys :
        k \in DOMAIN balances /\ k \in DOMAIN balances' /\ balances'[k] = balances[k]

\* C13: a transfer of A from W1 to a different wallet W2 lowers W1's balance
\* by exactly A and raises W2's by exactly A (an absent row counted as 0)
\* and changes no other balance: the debit statement and the credit
\* statement each make exactly that change where they take effect (at the
\* statement, or at COMMIT for both together), and a transfer returns
\* success only after both.
C13_TransferExact ==
    [][\A p \in Procs :
          (/\ Steps(p) /\ pc[p] # "idle"
           /\ req[p].op = "transfer" /\ req[p].from # req[p].to)
              => LET f == DebitKey(p)
                     r == CreditKey(p)
                     A == req[p].amount
                 IN  /\ (pc'[p] = "idle" /\ res'[p] = OK) => pc[p] = "t_commit"
                     /\ pc'[p] = "t_commit" => pc[p] = "t_credit"
                     /\ pc'[p] = "t_credit" => pc[p] = "t_begin"
                     /\ pc'[p] = "t_credit" =>
                            IF sess'[p] = "auto"
                            THEN /\ f \in DOMAIN balances /\ f \in DOMAIN balances'
                                 /\ balances'[f] = balances[f] - A
                                 /\ OtherBalancesKept({f})
                            ELSE balances' = balances
                     /\ pc'[p] = "t_commit" =>
                            IF sess[p] = "auto"
                            THEN /\ r \in DOMAIN balances'
                                 /\ balances'[r] = BalanceOf(balances, r) + A
                                 /\ OtherBalancesKept({r})
                            ELSE balances' = balances
                     /\ (pc'[p] = "idle" /\ res'[p] = OK) =>
                            IF sess[p] = "auto"
                            THEN balances' = balances
                            ELSE /\ f \in DOMAIN balances /\ f \in DOMAIN balances'
                                 /\ r \in DOMAIN balances'
                                 /\ balances'[f] = balances[f] - A
                                 /\ balances'[r] = BalanceOf(balances, r) + A
                                 /\ OtherBalancesKept({f, r})
                     /\ pc'[p] \notin {"t_credit", "t_commit", "idle"} => balances' = balances
                     /\ (pc'[p] = "idle" /\ res'[p] # OK) => balances' = balances]_vars

\* a transfer between two different wallets has succeeded, the receiver
\* already holding a balance of the token before it
C13_Witness ==
    \E p \in Procs :
        /\ Finished(p, "transfer") /\ res[p] = OK
        /\ req[p].from # req[p].to
        /\ DebitKey(p) \in DOMAIN balances
        /\ CreditKey(p) \in DOMAIN balances
        /\ balances[CreditKey(p)] > req[p].amount

\* C14: a successful mint of A to addr raises balance(addr, T) by exactly A,
\* an absent row counted as 0 and created by the call; the wallet of addr
\* exists by then, created with owner 'system' by the call when addr was
\* unknown; no other balance changes and no other wallet is touched.
C14_MintExact ==
    [][\A p \in Procs :
          (Steps(p) /\ pc[p] # "idle" /\ req[p].op = "mint")
              => LET r == CreditKey(p)
                     A == req[p].amount
                 IN  /\ (pc'[p] = "idle" /\ res'[p] = OK) =>
                            /\ pc[p] = "m_upsert"
                            /\ req[p].to \in DOMAIN wallets
                            /\ r \in DOMAIN balances'
                            /\ balances'[r] = BalanceOf(balances, r) + A
                            /\ OtherBalancesKept({r})
                     /\ ~(pc'[p] = "idle" /\ res'[p] = OK) => balances' = balances
                     /\ pc'[p] = "m_upsert" => req[p].to \in DOMAIN wallets'
                     /\ wallets' # wallets =>
                            /\ req[p].to \notin DOMAIN wallets
                            /\ DOMAIN wallets' = DOMAIN wallets \cup {req[p].to}
                            /\ wallets'[req[p].to] = "system"
                            /\ \A a \in DOMAIN wallets : wallets'[a] = wallets[a]]_vars

\* a mint has succeeded on a balance row that existed before it, in a wallet
\* the handlers created
C14_Witness ==
    \E p \in Procs :
        /\ Finished(p, "mint") /\ res[p] = OK
        /\ req[p].to \in DOMAIN wallets /\ wallets[req[p].to] = "system"
        /\ CreditKey(p) \in DOMAIN balances
        /\ balances[CreditKey(p)] > req[p].amount

\* the error a mint or burn of request r meets at the token's row, OK if none
FlagError(r) ==
    IF r.tokenId \notin DOMAIN tokens THEN ErrTokenNotFound
    ELSE IF r.op = "mint" /\ ~tokens[r.tokenId].is_mintable THEN ErrNotMintable
    ELSE IF r.op = "burn" /\ ~tokens[r.tokenId].is_burnable THEN ErrNotBurnable
    ELSE OK

\* C15: flag gating: a mint on an unknown or non-mintable token and a burn
\* on an unknown or non-burnable token fail with the matching error and
\* leave every wallet and balance as it was; a failed mint creates no wallet.
C15_FlagGating ==
    [][\A p \in Procs :
          (/\ Steps(p) \/ res'[p] # res[p]
           /\ req'[p].op \in {"mint", "burn"}
           /\ FlagError(req'[p]) # OK)
              => /\ pc'[p] = "idle"
                 /\ res'[p] = FlagError(req'[p])
                 /\ wallets' = wallets
                 /\ balances' = balances]_vars

\* while another address holds a balance, a mint to an address without a
\* wallet was refused at the token's row, and the address still has no wallet
C15_Witness ==
    \E p \in Procs :
        /\ Finished(p, "mint") /\ res[p] = ErrTokenNotFound
        /\ req[p].to \notin DOMAIN wallets
        /\ \E k \in DOMAIN balances : balances[k] > 0

\* C16: a burn from an address that has no balance row for the token fails
\* with an error of its own, not the insufficient-balance error, and writes
\* nothing.
C16_MissingRowOwnError ==
    [][\A p \in Procs :
          (pc[p] = "b_check" /\ Steps(p) /\ DebitKey(p) \notin DOMAIN balances)
              => /\ pc'[p] = "idle"
                 /\ res'[p] \notin {OK, ErrInsufficientBurn}
                 /\ balances' = balances
                 /\ wallets' = wallets]_vars

\* C17: createListing fails with NFTNotFound when nft_metadata has no row
\* for (tokenId, tokenNumber) and with NotOwner when the row's ownerAddress
\* is not the seller, and inserts nothing in either case: a listing row is
\* inserted only by a createListing that read the seller as the owner.
C17_ListingNeedsOwner ==
    [][/\ \A p \in Procs :
            (pc[p] = "cl_nft" /\ Steps(p))
                => /\ req[p].key \notin DOMAIN nfts
                        => pc'[p] = "idle" /\ res'[p] = ErrNFTNotFound
                   /\ (req[p].key \in DOMAIN nfts /\ nfts[req[p].key] # req[p].seller)
                        => pc'[p] = "idle" /\ res'[p] = ErrNotOwner
                   /\ pc'[p] = "cl_insert" => nfts[req[p].key] = req[p].seller
                   /\ listings' = listings
       /\ \A p \in Procs : (pc'[p] = "cl_insert" /\ Steps(p)) => pc[p] = "cl_nft"
       /\ listings' # listings /\ Len(listings') # Len(listings)
            => \E p \in Procs :
                  /\ pc[p] = "cl_insert" /\ Steps(p)
                  /\ Len(listings') = Len(listings) + 1
                  /\ listings'[Len(listings')].sellerAddress = req[p].seller]_vars

\* after a purchase moved the NFT to the buyer, a createListing by the
\* previous owner was refused with NotOwner
C17_Witness ==
    \E p \in Procs, i \in ListingIds :
        /\ Finished(p, "createListing") /\ res[p] = ErrNotOwner
        /\ listings[i].status = "sold"
        /\ ListingKey(i) = req[p].key
        /\ listings[i].sellerAddress = req[p].seller
        /\ nfts[req[p].key] = listings[i].buyerAddress
        /\ listings[i].buyerAddress # req[p].seller
        /\ Len(listings) = 1

\* C18: a createListing whose price is not positive fails and inserts no
\* listing row, so every stored listing has price > 0.
C18_PricePositive == \A i \in ListingIds : listings[i].price > 0

\* C19: an NFT's ownerAddress changes only through createNFT and a
\* successful buyNFT: a step that changes nft_metadata is a step of a
\* createNFT or of a buyNFT (never of a createListing, a cancelListing or a
\* token operation), and a buyNFT that fails has changed no ownerAddress.
C19_OwnerChangesOnlyOnSuccess ==
    [][/\ nfts' # nfts
            => \E p \in Procs :
                  Steps(p) /\ pc[p] # "idle" /\ req[p].op \in {"createNFT", "buy"}
       /\ \A p \in Procs :
            (/\ Steps(p) /\ req[p].op = "buy"
             /\ pc'[p] = "idle" /\ res'[p] # OK)
                => "nfts" \notin wrote[p]]_vars

\* C20: buyNFT never changes a token_balances row: every step of a buyNFT,
\* on a listing with or without currencyTokenId and whether the call
\* succeeds or fails, leaves all balances as they were.
C20_BuyKeepsBalances ==
    [][\A p \in Procs :
          (/\ Steps(p)
           /\ \/ pc[p] # "idle" /\ req[p].op = "buy"
              \/ pc[p] = "idle" /\ req'[p].op = "buy")
              => balances' = balances]_vars

\* a purchase of a listing priced in a currency token has succeeded, and the
\* buyer holds at least the price in that token
C20_Witness ==
    \E p \in Procs :
        /\ Finished(p, "buy") /\ res[p] = OK
        /\ req[p].listingId \in ListingIds
        /\ LET l == listings[req[p].listingId] IN
              /\ l.status = "sold" /\ l.buyerAddress = req[p].buyer
              /\ l.currencyTokenId # NoCurrency
              /\ l.buyerAddress # l.sellerAddress
              /\ balances[<<l.buyerAddress, l.currencyTokenId>>] >= l.price

C22_NoPartialWrites ==
    \A p \in Procs :
        (/\ pc[p] = "idle"
         /\ req[p].op \in {"mint", "burn", "transfer", "createListing", "buy", "cancel"}
         /\ res[p] \notin {OK, "none"})
            => wrote[p] = {}

\* C23: the rows inserted so far are at most one wallet per address and at
\* most one balance per (wallet, token), and they are the rows the tables
\* hold, also when several mints and transfers credit the same absent pair
\* or the same unknown address at the same time.
C23_RowsUnique ==
    /\ \A a \in Addrs :
          /\ inserts.wallets[a] <= 1
          /\ inserts.wallets[a] = 1 <=> a \in DOMAIN wallets
    /\ \A k \in Addrs \X AnyTokenIds :
          /\ inserts.balances[k] <= 1
          /\ inserts.balances[k] = 1 <=> k \in DOMAIN balances

\* two mints found the address unknown at the same time: one inserted the
\* wallet and the balance row, the other's INSERT was refused
C23_Witness ==
    \E p, q \in Procs :
        /\ p # q
        /\ Finished(p, "mint") /\ res[p] = ErrDuplicateKey
        /\ Finished(q, "mint") /\ res[q] = OK
        /\ req[p].to = req[q].to
        /\ inserts.wallets[req[p].to] = 1
        /\ inserts.balances[<<req[q].to, req[q].tokenId>>] = 1

\* C24: with calls served one at a time and positive amounts, no balance is
\* ever negative, no balance row is ever deleted, a burn or transfer of
\* exactly the balance passes the balance check, and its debit leaves the
\* row with balance 0.
C24_SequentialNonNegative ==
    [][/\ \A k \in DOMAIN balances' : balances'[k] >= 0
       /\ \A k \in DOMAIN pend'[1].bal : pend'[1].bal[k] >= 0
       /\ DOMAIN balances \subseteq DOMAIN balances'
       /\ (/\ Steps(1)
           /\ pc[1] \in {"b_check", "t_check"}
           /\ DebitKey(1) \in DOMAIN balances
           /\ balances[DebitKey(1)] = req[1].amount)
              => pc'[1] # "idle" /\ res'[1] = "none"
       /\ (/\ Steps(1)
           /\ pc[1] \in {"b_debit", "t_begin"} /\ pc'[1] \in {"idle", "t_credit"}
           /\ balances[DebitKey(1)] = req[1].amount)
              => /\ DebitKey(1) \in DOMAIN ViewBal(1)'
                 /\ ViewBal(1)'[DebitKey(1)] = 0
       /\ (/\ Steps(1) /\ pc[1] = "t_commit" /\ pc'[1] = "idle"
           /\ req[1].from # req[1].to)
              => /\ res'[1] = OK
                 /\ balances'[DebitKey(1)] = ViewBal(1)[DebitKey(1)]]_vars

\* a transfer of the sender's whole balance to another address has
\* succeeded: the sender's row is still there, at 0
C24_Witness ==
    /\ Finished(1, "transfer") /\ res[1] = OK
    /\ req[1].from # req[1].to
    /\ DebitKey(1) \in DOMAIN balances
    /\ balances[DebitKey(1)] = 0
    /\ CreditKey(1) \in DOMAIN balances
    /\ balances[CreditKey(1)] >= req[1].amount

RECURSIVE SumOver(_, _)
\* the sum of f over the keys in S
SumOver(f, S) ==
    IF S = {} THEN 0
    ELSE LET k == CHOOSE x \in S : TRUE IN f[k] + SumOver(f, S \ {k})

\* SUM(balance) over the token_balances rows of token t
Supply(b, t) == SumOver(b, {k \in DOMAIN b : k[2] = t})

\* the amounts that transfers of token t have debited on statements that
\* committed on their own and have not credited yet
InTransit(t) ==
    SumOver([p \in Procs |-> IF /\ req[p].op = "transfer" /\ req[p].tokenId = t
                                /\ pc[p] = "t_credit" /\ sess[p] = "auto"
                             THEN req[p].amount ELSE 0], Procs)

\* C25: the sum of the balances of a token, counting an amount a running
\* transfer has debited and not yet credited, changes only when a mint
\* credits (by +amount) or a burn debits (by -amount); no step of a
\* transfer, under any interleaving, changes it.
C25_SupplyConserved ==
    [][\A t \in TokenIds :
         LET before == Supply(balances, t) + InTransit(t)
             after  == Supply(balances', t) + InTransit(t)'
         IN  \/ after = before
             \/ \E p \in Procs :
                   /\ req[p].op \in {"mint", "burn"}
                   /\ req[p].tokenId = t
                   /\ \/ pc[p] = "m_upsert" /\ pc'[p] = "idle" /\ res'[p] = OK
                         /\ after = before + req[p].amount
                      \/ pc[p] = "b_debit" /\ pc'[p] = "idle" /\ res'[p] = OK
                         /\ after = before - req[p].amount]_vars

\* C26: every active listing's sellerAddress is the current ownerAddress of
\* its NFT.
C26_ActiveSellerOwns ==
    \A i \in ListingIds :
        listings[i].status = "active"
            => /\ ListingKey(i) \in DOMAIN nfts
               /\ nfts[ListingKey(i)] = listings[i].sellerAddress

\* C27: a buyNFT and a cancelListing of the same listing never both return
\* success, and a listing whose cancelListing has returned success is not
\* in status 'sold'.
C27_BuyCancelExclusive ==
    \A p, q \in Procs :
        (/\ Finished(p, "buy") /\ res[p] = OK
         /\ Finished(q, "cancel") /\ res[q] = OK)
            => /\ req[p].listingId # req[q].listingId
               /\ listings[req[q].listingId].status # "sold"

\* what request p, once it has succeeded, has added to balance row k
Credited(p, k) == IF CreditKey(p) = k THEN req[p].amount ELSE 0

\* what request p, once it has succeeded, has taken from balance row k
Debited(p, k) == IF req[p].op = "transfer" /\ DebitKey(p) = k THEN req[p].amount ELSE 0

\* C28: when the mints and transfers that ran at the same time have all
\* succeeded, every balance row holds its initial balance plus every amount
\* credited to it (less what the transfers debited from it): no credit is
\* lost.
C28_NoLostCredit ==
    (/\ calls = Cardinality(Procs)
     /\ \A p \in Procs : /\ pc[p] = "idle" /\ res[p] = OK
                         /\ req[p].op \in {"mint", "transfer"})
        => \A k \in Addrs \X TokenIds :
              /\ k \in DOMAIN balances
              /\ balances[k] = InitialBalance
                                + SumOver([p \in Procs |-> Credited(p, k)], Procs)
                                - SumOver([p \in Procs |-> Debited(p, k)], Procs)

\* a mint and a transfer that ran at the same time have both credited the
\* same existing row and both succeeded
C28_Witness ==
    \E p, q \in Procs :
        /\ calls = Cardinality(Procs)
        /\ Finished(p, "mint") /\ res[p] = OK
        /\ Finished(q, "transfer") /\ res[q] = OK
        /\ req[q].from # req[q].to
        /\ CreditKey(p) = CreditKey(q)
        /\ balances[CreditKey(p)] = InitialBalance + req[p].amount + req[q].amount

\* C29: a transfer with fromAddress = toAddress whose amount the balance
\* covers passes the balance check, its debit and its credit hit the same
\* row (visible one after the other when each commits on its own, not at
\* all inside a transaction), and its successful return leaves every balance
\* and every wallet as the credit left them: the row is back at its value;
\* with an amount above the balance, or no row, it fails with the
\* insufficient-balance error and changes nothing.
C29_SelfTransfer ==
    [][\A p \in Procs :
          (/\ Steps(p) /\ pc[p] # "idle"
           /\ req[p].op = "transfer" /\ req[p].from = req[p].to)
              => LET k == DebitKey(p)
                     A == req[p].amount
                 IN  /\ wallets' = wallets
                     /\ pc[p] = "t_check" =>
                            /\ balances' = balances
                            /\ IF k \in DOMAIN balances /\ A <= balances[k]
                               THEN pc'[p] = "t_wallet" /\ res'[p] = "none"
                               ELSE pc'[p] = "idle" /\ res'[p] = ErrInsufficientTransfer
                     /\ pc[p] = "t_wallet" => pc'[p] = "t_begin" /\ balances' = balances
                     /\ (pc'[p] = "idle" /\ res'[p] = OK) => pc[p] = "t_commit"
                     /\ pc'[p] = "t_commit" => pc[p] = "t_credit"
                     /\ pc'[p] = "t_credit" => pc[p] = "t_begin"
                     /\ pc'[p] = "t_credit" =>
                            IF sess'[p] = "auto"
                            THEN /\ k \in DOMAIN balances /\ k \in DOMAIN balances'
                                 /\ balances'[k] = balances[k] - A
                                 /\ OtherBalancesKept({k})
                            ELSE /\ balances' = balances
                                 /\ ViewBal(p)'[k] = balances[k] - A
                     /\ pc'[p] = "t_commit" =>
                            IF sess[p] = "auto"
                            THEN /\ k \in DOMAIN balances /\ k \in DOMAIN balances'
                                 /\ balances'[k] = balances[k] + A
                                 /\ OtherBalancesKept({k})
                            ELSE /\ balances' = balances
                                 /\ ViewBal(p)'[k] = balances[k]
                     /\ (pc'[p] = "idle" /\ res'[p] = OK) => balances' = balances]_vars

\* a transfer from an address to itself has succeeded and the address holds
\* a balance that covers the amount
C29_Witness ==
    \E p \in Procs :
        /\ Finished(p, "transfer") /\ res[p] = OK
        /\ req[p].from = req[p].to
        /\ "balances" \notin wrote[p]
        /\ DebitKey(p) \in DOMAIN balances
        /\ balances[DebitKey(p)] >= req[p].amount

====
